---- MODULE Spec2Model ----
(***************************************************************************)
(* sparkyrng.hpp: the splitmix64 seed mixer, the xoshiro256** engine        *)
(* (Xoshiro256StarStarEngine) and the distribution layer built on it        *)
(* (class Random, random_u64_limited, random_f52, ...).                     *)
(*                                                                         *)
(* An unsigned integer of w bits is a sequence of 8-bit limbs, the least   *)
(* significant first: a uint64_t has 8 limbs, a __uint128_t has 16.  All   *)
(* arithmetic is modulo 2^w, as it is for the unsigned types of the source.*)
(***************************************************************************)
EXTENDS Integers, Sequences, FiniteSets, TLC

\* ------------------------------------------------------------ bounds
\* calls made on the two engines in one behaviour of SpecEngine
MaxCalls == 3
\* largest count handed to discard
MaxDiscard == 2
\* calls made on the two engines in one behaviour of SpecSeed
MaxSeedings == 2
\* sampling calls made on the Random object in one behaviour of SpecRandom
MaxSamples == 2
\* words the source of SpecLimited may have rejected in one call
MaxRejects == 2
\* word width of the exhaustively enumerated instance of random_u64_limited
LimBits == 4

\* ------------------------------------------------------------ words
\* uint64_t
WordBits == 64

\* A function 1..n -> values as an explicit sequence.
AsSeq(f) == f \o <<>>

NumLimbs(w) == (w + 7) \div 8

LimbAt(x, j) == IF j >= 1 /\ j <= Len(x) THEN x[j] ELSE 0

\* static_cast<w-bit unsigned>(x): keep the low w bits, zero-extend above.
Cast(x, w) ==
    AsSeq([j \in 1..NumLimbs(w) |->
              IF 8 * j <= w THEN LimbAt(x, j) ELSE LimbAt(x, j) % 2^(w - 8 * (j - 1))])

\* A small natural number (below 2^31) as a w-bit word.
FromNat(n, w) ==
    Cast(AsSeq([j \in 1..NumLimbs(w) |-> IF j <= 4 THEN (n \div 256^(j - 1)) % 256 ELSE 0]), w)

\* UINT64_C(0xAAAABBBBCCCCDDDD) written as <<16^^AAAA, 16^^BBBB, 16^^CCCC, 16^^DDDD>>.
U64C(h) == AsSeq([j \in 1..8 |-> (h[4 - ((j - 1) \div 2)] \div 256^((j - 1) % 2)) % 256])

\* Bit i (0 is the least significant) of the limb a.
LimbBit(a, i) == (a \div 2^i) % 2

\* a & b for all pairs of limbs; AndTable[a + 1][b + 1].
AndTable ==
    AsSeq([a1 \in 1..256 |-> AsSeq([b1 \in 1..256 |->
        LimbBit(a1 - 1, 0) * LimbBit(b1 - 1, 0) + 2 * LimbBit(a1 - 1, 1) * LimbBit(b1 - 1, 1)
        + 4 * LimbBit(a1 - 1, 2) * LimbBit(b1 - 1, 2) + 8 * LimbBit(a1 - 1, 3) * LimbBit(b1 - 1, 3)
        + 16 * LimbBit(a1 - 1, 4) * LimbBit(b1 - 1, 4) + 32 * LimbBit(a1 - 1, 5) * LimbBit(b1 - 1, 5)
        + 64 * LimbBit(a1 - 1, 6) * LimbBit(b1 - 1, 6)
        + 128 * LimbBit(a1 - 1, 7) * LimbBit(b1 - 1, 7)])])

\* x ^ y and x | y on words of the same width.
Xor(x, y) == AsSeq([j \in 1..Len(x) |-> x[j] + y[j] - 2 * AndTable[x[j] + 1][y[j] + 1]])
Or(x, y) == AsSeq([j \in 1..Len(x) |-> x[j] + y[j] - AndTable[x[j] + 1][y[j] + 1]])

\* x << k on a w-bit word (k < w).
Shl(x, k, w) ==
    Cast(AsSeq([j \in 1..Len(x) |->
                  ((LimbAt(x, j - (k \div 8)) * 2^(k % 8)) % 256)
                  + (LimbAt(x, j - (k \div 8) - 1) \div 2^(8 - (k % 8)))]), w)

\* x >> k (k < w).
Shr(x, k) ==
    AsSeq([j \in 1..Len(x) |->
              (LimbAt(x, j + (k \div 8)) \div 2^(k % 8))
              + ((LimbAt(x, j + (k \div 8) + 1) * 2^(8 - (k % 8))) % 256)])

\* Limb-wise x + y + c with carry propagation; acc holds the limbs done so far.
RECURSIVE AddLimbs(_, _, _, _)
AddLimbs(xs, ys, c, acc) ==
    IF Len(acc) = Len(xs) THEN acc
    ELSE LET s == xs[Len(acc) + 1] + ys[Len(acc) + 1] + c
         IN IF s >= 256
            THEN AddLimbs(xs, ys, 1, Append(acc, s - 256))
            ELSE AddLimbs(xs, ys, 0, Append(acc, s))

\* x + y modulo 2^w.
Add(x, y, w) == Cast(AddLimbs(x, y, 0, <<>>), w)

\* -x modulo 2^w: ~x + 1.
Neg(x, w) == Add(Cast(AsSeq([j \in 1..Len(x) |-> 255 - x[j]]), w), FromNat(1, w), w)

\* x - y modulo 2^w.
Sub(x, y, w) == Add(x, Neg(y, w), w)

\* Sum of xs[i] * ys[k + 1 - i] over the limb pairs of column k.
RECURSIVE ColumnSum(_, _, _, _)
ColumnSum(xs, ys, k, i) ==
    IF i > k THEN 0
    ELSE xs[i] * ys[k + 1 - i] + ColumnSum(xs, ys, k, i + 1)

\* Schoolbook product of two limb sequences of the same length, cut to that length.
RECURSIVE MulLimbs(_, _, _, _)
MulLimbs(xs, ys, c, acc) ==
    IF Len(acc) = Len(xs) THEN acc
    ELSE LET s == ColumnSum(xs, ys, Len(acc) + 1, 1) + c
         IN IF s >= 256
            THEN MulLimbs(xs, ys, s \div 256, Append(acc, s % 256))
            ELSE MulLimbs(xs, ys, 0, Append(acc, s))

\* x * y modulo 2^w.
Mul(x, y, w) == Cast(MulLimbs(x, y, 0, <<>>), w)

\* x < y as unsigned numbers of the same width: the highest differing limb decides.
Less(x, y) ==
    \E j \in 1..Len(x) :
        /\ x[j] < y[j]
        /\ \A k \in (j + 1)..Len(x) : x[k] = y[k]

IsZero(x) == \A j \in 1..Len(x) : x[j] = 0

\* Bit i (1 is the least significant) of the word x.
WordBit(x, i) == LimbBit(x[((i - 1) \div 8) + 1], (i - 1) % 8)

\* Restoring division, from bit i of x down: r is the remainder so far, one bit wider than x.
RECURSIVE ModFrom(_, _, _, _, _)
ModFrom(x, y, i, r, w) ==
    IF i = 0 \/ Len(r) = 0 THEN Cast(r, w)
    ELSE LET r2 == Add(Shl(r, 1, w + 1), FromNat(WordBit(x, i), w + 1), w + 1)
         IN ModFrom(x, y, i - 1, IF Less(r2, y) THEN r2 ELSE Sub(r2, y, w + 1), w)

\* x % y on w-bit words, y # 0.
Mod(x, y, w) == ModFrom(x, Cast(y, w + 1), w, FromNat(0, w + 1), w)

\* ------------------------------------------------------------ detail::rotl
rotl(x, k) == Or(Shl(x, k, WordBits), Shr(x, 64 - k))

\* ------------------------------------------------------------ detail::splitmix64
GoldenGamma == U64C(<<\H9E37, \H79B9, \H7F4A, \H7C15>>)
MixMulA == U64C(<<\HBF58, \H476D, \H1CE4, \HE5B9>>)
MixMulB == U64C(<<\H94D0, \H49BB, \H1331, \H11EB>>)

\* *state after the call: *state += 0x9e3779b97f4a7c15.
splitmix64_state(s) == Add(s, GoldenGamma, WordBits)

\* The value returned for *state = s on entry.
splitmix64(s) ==
    LET z0 == splitmix64_state(s)
        z1 == Mul(Xor(z0, Shr(z0, 30)), MixMulA, WordBits)
        z2 == Mul(Xor(z1, Shr(z1, 27)), MixMulB, WordBits)
    IN Xor(z2, Shr(z2, 31))

\* ------------------------------------------------------------ Xoshiro256StarStarEngine
\* static constexpr result_type default_seed = 18914u
default_seed == 18914
\* discard(256) at the end of both seed overloads
BurnIn == 256

\* "start with well mixed bits": state_[0..3] is st[1..4].
InitialState ==
    << U64C(<<\H5FAF, \H84EE, \H2AA0, \H4CFF>>), U64C(<<\HB3A2, \HEF35, \H24D8, \H9987>>),
       U64C(<<\H5A82, \HB68E, \HF098, \HF79D>>), U64C(<<\H5D7A, \HA032, \H9848, \H6D6E>>) >>

\* The word stored into state_[1] when the mixed state is all zero.
ZeroFixWord == U64C(<<\H1615, \HCA18, \HE55E, \HE70C>>)

\* next(): the value returned, computed from state_[1] before the update.
NextResult(st) == Mul(rotl(Mul(st[2], FromNat(5, WordBits), WordBits), 7), FromNat(9, WordBits), WordBits)

\* x & y on words of the same width.
And(x, y) == AsSeq([j \in 1..Len(x) |-> AndTable[x[j] + 1][y[j] + 1]])

\* NextState with every ^= of the four-word mix typed &=.
NextState_and(st) ==
    LET t == Shl(st[2], 17, WordBits)
        s2 == And(st[3], st[1])
        s3 == And(st[4], st[2])
        s1 == And(st[2], s2)
        s0 == And(st[1], s3)
    IN << s0, s1, Xor(s2, t), rotl(s3, 45) >>

\* next(): the state left behind.
NextState(st) ==
    LET t == Shl(st[2], 17, WordBits)
        s2 == Xor(st[3], st[1])
        s3 == Xor(st[4], st[2])
        s1 == Xor(st[2], s2)
        s0 == Xor(st[1], s3)
    IN << s0, s1, Xor(s2, t), rotl(s3, 45) >>

\* discard whose loop stops one call early: for(; z > 1; --z) next();
RECURSIVE discard_short(_, _)
discard_short(st, z) ==
    IF z <= 1 \/ Len(st) = 0 THEN st
    ELSE discard_short(NextState(st), z - 1)

\* discard(z): for(; z != 0; --z) next(); the z calls are made half by half, which
\* keeps the evaluation of discard(256) shallow.
RECURSIVE discard(_, _)
discard(st, z) ==
    IF z = 0 \/ Len(st) = 0 THEN st
    ELSE IF z = 1 THEN NextState(st)
    ELSE discard(discard(st, z \div 2), z - (z \div 2))

\* for(auto &&a : state_) a += splitmix64(&s), from state word i on.
RECURSIVE AddMixed(_, _, _)
AddMixed(st, s, i) ==
    IF i > Len(st) \/ Len(s) = 0 THEN st
    ELSE AddMixed([st EXCEPT ![i] = Add(st[i], splitmix64(s), WordBits)], splitmix64_state(s), i + 1)

\* "check to see if state is all zeros and fix"
ZeroFix(st) ==
    IF IsZero(st[1]) /\ IsZero(st[2]) /\ IsZero(st[3]) /\ IsZero(st[4])
    THEN [st EXCEPT ![2] = ZeroFixWord]
    ELSE st

\* seed(s) without the assignment of the constants: the mixed words are added to what
\* state_ held before.
seed_keep(old, s) == discard(ZeroFix(AddMixed(old, s, 1)), BurnIn)

\* seed(result_type s) on an engine whose state_ is old: state_ is assigned first.
seed(old, s) == discard(ZeroFix(AddMixed(InitialState, s, 1)), BurnIn)

\* for(result_type s : ss) { for(auto &&a : state_) a += splitmix64(&s); }, from element k on.
RECURSIVE AddMixedAll(_, _, _)
AddMixedAll(st, ss, k) ==
    IF k > Len(ss) \/ Len(st) = 0 THEN st
    ELSE AddMixedAll(AddMixed(st, ss[k], 1), ss, k + 1)

\* seed(Sseq &ss) on an engine whose state_ is old.
seed_seq(old, ss) == discard(ZeroFix(AddMixedAll(InitialState, ss, 1)), BurnIn)

\* set_state that copies all but the last word.
set_state_partial(old, new) == [new EXCEPT ![4] = old[4]]

\* state() and set_state(state)
state(st) == st
set_state(old, new) == new

\* operator== and operator!=: std::array compares element by element.
Equals(left, right) == \A i \in 1..4 : left[i] = right[i]
NotEquals(left, right) == ~Equals(left, right)

\* ------------------------------------------------------------ distribution layer
\* uint32_t random_u32(uint64_t u) { return u >> 32; }
random_u32(u) == Cast(Shr(u, 32), 32)

\* std::pair<uint32_t, uint32_t> random_u32_pair(uint64_t u) { return {u, u >> 32}; }
random_u32_pair(u) == << Cast(u, 32), Cast(Shr(u, 32), 32) >>

\* A double that is num / 2^scale exactly is written [num |-> word, scale |-> n].
\* random_f52: the bit pattern (u >> 12) | 0x3FF0000000000000 read as a double is
\* (2^52 + fraction) / 2^52; 0.99999999999999988 is the double (2^53 - 1) / 2^53.
random_f52(u) ==
    LET pattern == Or(Shr(u, 12), U64C(<<\H3FF0, 0, 0, 0>>))
        fraction == Cast(Cast(pattern, 52), WordBits)
        significand == Add(U64C(<<\H0010, 0, 0, 0>>), fraction, WordBits)
    IN [num |-> Sub(Shl(significand, 1, WordBits),
                    U64C(<<\H001F, \HFFFF, \HFFFF, \HFFFF>>), WordBits),
        scale |-> 53]

\* random_f53: static_cast<int64_t>(u >> 11) / 9007199254740992.0
random_f53(u) == [num |-> Shr(u, 11), scale |-> 53]

\* random_u64_limited works on uint64_t and __uint128_t; here on w and 2w bits.
\* m = static_cast<__uint128_t>(x) * static_cast<__uint128_t>(max_value)
LimProduct(x, max_value, w) == Mul(Cast(x, 2 * w), Cast(max_value, 2 * w), 2 * w)

\* l = static_cast<uint64_t>(m)
LimLow(m, w) == Cast(m, w)

\* The threshold without the negation: max_value % max_value.
LimThreshold_noneg(max_value, w) == Mod(max_value, max_value, w)

\* t = -max_value % max_value
LimThreshold(max_value, w) == Mod(Neg(max_value, w), max_value, w)

\* The first word x is rejected: l < max_value, and then l < t.
LimRejectFirst(x, max_value, w) ==
    LET l == LimLow(LimProduct(x, max_value, w), w)
    IN Less(l, max_value) /\ Less(l, LimThreshold(max_value, w))

\* A word x drawn inside the loop is rejected: while(l < t).
LimRejectAgain(x, max_value, t, w) == Less(LimLow(LimProduct(x, max_value, w), w), t)

\* The low half of the product returned in place of the high half.
LimResult_low(x, max_value, w) == LimLow(LimProduct(x, max_value, w), w)

\* return m >> 64, for the accepted word x
LimResult(x, max_value, w) == Cast(Shr(LimProduct(x, max_value, w), w), w)

\* The loop of random_u64_limited with the engine as get(): st is the engine after a
\* rejected word was drawn, k the words rejected so far.
RECURSIVE LimLoop(_, _, _, _)
LimLoop(st, max_value, t, k) ==
    IF Len(st) = 0 \/ ~LimRejectAgain(NextResult(st), max_value, t, WordBits)
    THEN [st |-> NextState(st), ret |-> LimResult(NextResult(st), max_value, WordBits),
          rejected |-> k]
    ELSE LimLoop(NextState(st), max_value, t, k + 1)

\* random_u64_limited(max_value, get) with get() the engine's operator().
random_u64_limited(st, max_value) ==
    IF LimRejectFirst(NextResult(st), max_value, WordBits)
    THEN LimLoop(NextState(st), max_value, LimThreshold(max_value, WordBits), 1)
    ELSE [st |-> NextState(st), ret |-> LimResult(NextResult(st), max_value, WordBits),
          rejected |-> 0]

\* bits() that calls next() twice and returns the second word.
Random_bits_twice(st) == [st |-> NextState(NextState(st)), ret |-> NextResult(NextState(st))]

\* Random::bits(): one call of operator(), that is of next().
Random_bits(st) == [st |-> NextState(st), ret |-> NextResult(st)]

\* Random::bits(int b) { return bits() >> (64 - b); } for 1 <= b <= 64.
Random_bits_b(st, b) == [st |-> Random_bits(st).st, ret |-> Shr(Random_bits(st).ret, 64 - b)]

\* bits(0) shifts a uint64_t by 64, which is undefined: the values a build produces are
\* 0 (a shifter that honours the full count) and the word itself (x86-64 and AArch64
\* take the count modulo 64).
Random_bits_0(st) == { FromNat(0, WordBits), Random_bits(st).ret }

Random_u64(st) == Random_bits(st)
Random_u64_limited(st, max_value) == random_u64_limited(st, max_value)
Random_u32(st) == [st |-> Random_bits(st).st, ret |-> random_u32(Random_bits(st).ret)]
Random_u32_pair(st) == [st |-> Random_bits(st).st, ret |-> random_u32_pair(Random_bits(st).ret)]
Random_f52(st) == [st |-> Random_bits(st).st, ret |-> random_f52(Random_bits(st).ret)]
Random_f53(st) == [st |-> Random_bits(st).st, ret |-> random_f53(Random_bits(st).ret)]

\* ------------------------------------------------------------ inputs
Engines == {1, 2}

\* Seed values and seed sequences handed to the constructors and to seed().
SeedWords == { FromNat(0, WordBits), FromNat(default_seed, WordBits) }
SeedSeqs ==
    { <<>>, << FromNat(0, WordBits) >>,
      << FromNat(1, WordBits), FromNat(2, WordBits), FromNat(3, WordBits) >>,
      << FromNat(3, WordBits), FromNat(2, WordBits), FromNat(1, WordBits) >> }

Materials ==
    { [kind |-> "value", arg |-> v] : v \in SeedWords }
    \cup { [kind |-> "seq", arg |-> ss] : ss \in SeedSeqs }

\* state_ of an object before its constructor runs seed(): never read by the code.
Indeterminate == << FromNat(0, WordBits), FromNat(0, WordBits),
                    FromNat(0, WordBits), FromNat(0, WordBits) >>

Seeded(old, m) == IF m.kind = "value" THEN seed(old, m.arg) ELSE seed_seq(old, m.arg)

\* The engines the two constructors build.
Constructed == { [src |-> m, st |-> Seeded(Indeterminate, m)] : m \in Materials }
DefaultConstructed ==
    CHOOSE c \in Constructed : c.src = [kind |-> "value", arg |-> FromNat(default_seed, WordBits)]

\* Bit widths handed to bits(b), and bounds handed to u64(max_value).
BitWidths == {0, 1, 32, 63, 64}
LimMax64 ==
    { FromNat(0, WordBits), FromNat(1, WordBits), FromNat(2, WordBits), FromNat(3, WordBits),
      FromNat(17, WordBits), U64C(<<0, 1, 0, 0>>), U64C(<<\H8000, 0, 0, 0>>),
      U64C(<<\H8000, 0, 0, 1>>), U64C(<<\HFFFF, \HFFFF, \HFFFF, \HFFFF>>) }

\* Raw words a source other than the engine supplies to random_u64_limited.
Raw64 ==
    { FromNat(0, WordBits), FromNat(1, WordBits), U64C(<<\H5555, \H5555, \H5555, \H5556>>),
      U64C(<<\H8000, 0, 0, 0>>), U64C(<<\HFFFF, \HFFFF, \HFFFF, \HFFFF>>) }
AllWords(w) == { FromNat(k, w) : k \in 0..(2^w - 1) }
RawWords(w) == IF w = WordBits THEN Raw64 ELSE AllWords(w)

\* ------------------------------------------------------------ state
VARIABLES
    eng,    \* eng[e]: state_ of engine e
    base,   \* base[e]: state_ when e was last seeded, or took part in a set_state
    src,    \* src[e]: what base[e] was made from
    adv,    \* adv[e]: next() calls asked of e since base[e], a discard(n) counting n
    disc,   \* disc[e]: those of them asked through discard
    outs,   \* outs[e]: the words operator() returned since base[e]
    last,   \* last[e]: the last call made on e
    ops,    \* calls made so far
    lim     \* a call of random_u64_limited on a source that is not the engine

vars == <<eng, base, src, adv, disc, outs, last, ops, lim>>

NoCall ==
    [op |-> "construct", arg |-> <<>>, ret |-> <<>>, pre |-> Indeterminate, rejected |-> 0,
     outcome |-> "returned"]
LimIdle == [w |-> 0, max |-> <<>>, pc |-> "idle", t |-> <<>>, ret |-> <<>>, rejected |-> 0]

\* Two engines built from c1 and c2, no call made yet.
Built(c1, c2) ==
    /\ eng = << c1.st, c2.st >>
    /\ base = << c1.st, c2.st >>
    /\ src = << c1.src, c2.src >>
    /\ adv = << 0, 0 >>
    /\ disc = << 0, 0 >>
    /\ outs = << <<>>, <<>> >>
    /\ last = << NoCall, NoCall >>
    /\ ops = 0

\* A call on e that draws 1 + rejected words and returns ret, leaving e in state st.
Drew(e, op, arg, st, ret, rejected) ==
    /\ eng' = [eng EXCEPT ![e] = st]
    /\ adv' = [adv EXCEPT ![e] = @ + 1 + rejected]
    /\ last' = [last EXCEPT ![e] = [op |-> op, arg |-> arg, ret |-> ret, pre |-> eng[e],
                                    rejected |-> rejected, outcome |-> "returned"]]
    /\ ops' = ops + 1
    /\ UNCHANGED <<base, src, disc, lim>>

\* ------------------------------------------------------------ engine calls
\* operator()
DoCall(e) ==
    /\ Drew(e, "call", <<>>, NextState(eng[e]), NextResult(eng[e]), 0)
    /\ outs' = [outs EXCEPT ![e] = Append(@, NextResult(eng[e]))]

\* discard(z)
DoDiscard(e, z) ==
    /\ eng' = [eng EXCEPT ![e] = discard(eng[e], z)]
    /\ adv' = [adv EXCEPT ![e] = @ + z]
    /\ disc' = [disc EXCEPT ![e] = @ + z]
    /\ last' = [last EXCEPT ![e] = [op |-> "discard", arg |-> z, ret |-> <<>>, pre |-> eng[e],
                                    rejected |-> 0, outcome |-> "returned"]]
    /\ ops' = ops + 1
    /\ UNCHANGED <<base, src, outs, lim>>

\* e.set_state(f.state()); both engines count from the copied state on.
DoSetState(e, f) ==
    /\ eng' = [eng EXCEPT ![e] = set_state(eng[e], state(eng[f]))]
    /\ base' = [g \in Engines |-> IF g \in {e, f} THEN eng[f] ELSE base[g]]
    /\ src' = [g \in Engines |-> IF g \in {e, f} THEN [kind |-> "state", arg |-> <<>>] ELSE src[g]]
    /\ adv' = [g \in Engines |-> IF g \in {e, f} THEN 0 ELSE adv[g]]
    /\ disc' = [g \in Engines |-> IF g \in {e, f} THEN 0 ELSE disc[g]]
    /\ outs' = [g \in Engines |-> IF g \in {e, f} THEN <<>> ELSE outs[g]]
    /\ last' = [last EXCEPT ![e] = [op |-> "set_state", arg |-> f, ret |-> <<>>, pre |-> eng[e],
                                    rejected |-> 0, outcome |-> "returned"]]
    /\ ops' = ops + 1
    /\ UNCHANGED lim

\* seed(s) and seed(ss)
DoSeed(e, m) ==
    /\ eng' = [eng EXCEPT ![e] = Seeded(eng[e], m)]
    /\ base' = [base EXCEPT ![e] = eng'[e]]
    /\ src' = [src EXCEPT ![e] = m]
    /\ adv' = [adv EXCEPT ![e] = 0]
    /\ disc' = [disc EXCEPT ![e] = 0]
    /\ outs' = [outs EXCEPT ![e] = <<>>]
    /\ last' = [last EXCEPT ![e] = [op |-> "seed", arg |-> m, ret |-> <<>>, pre |-> eng[e],
                                    rejected |-> 0, outcome |-> "returned"]]
    /\ ops' = ops + 1
    /\ UNCHANGED lim

\* ------------------------------------------------------------ SpecEngine
\* Two engines, the first built by either constructor and the second from a seed value,
\* then operator(), discard and set_state.
InitEngine ==
    /\ lim = LimIdle
    /\ \E c1 \in Constructed, c2 \in Constructed : c2.src.kind = "value" /\ Built(c1, c2)

Call(e) == ops < MaxCalls /\ DoCall(e)
Discard(e, z) == ops < MaxCalls /\ DoDiscard(e, z)
SetState(e, f) == ops < MaxCalls /\ DoSetState(e, f)

NextEngine ==
    \/ \E e \in Engines : Call(e)
    \/ \E e \in Engines, z \in 0..MaxDiscard : Discard(e, z)
    \/ \E e \in Engines, f \in Engines : SetState(e, f)

SpecEngine == InitEngine /\ [][NextEngine]_vars

\* ------------------------------------------------------------ SpecSeed
\* Two default-constructed engines, then seed(s), seed(ss) and operator().
InitSeed == lim = LimIdle /\ Built(DefaultConstructed, DefaultConstructed)

Seed(e, s) == ops < MaxSeedings /\ DoSeed(e, [kind |-> "value", arg |-> s])
SeedSeq(e, ss) == ops < MaxSeedings /\ DoSeed(e, [kind |-> "seq", arg |-> ss])
CallBetween(e) == ops < MaxSeedings /\ DoCall(e)

NextSeed ==
    \/ \E e \in Engines, s \in SeedWords : Seed(e, s)
    \/ \E e \in Engines, ss \in SeedSeqs : SeedSeq(e, ss)
    \/ \E e \in Engines : CallBetween(e)

SpecSeed == InitSeed /\ [][NextSeed]_vars

\* ------------------------------------------------------------ SpecRandom
\* Engine 1 is a Random object built from a seed value; engine 2 is left alone.
InitRandom ==
    /\ lim = LimIdle
    /\ \E c \in Constructed : c.src.kind = "value" /\ Built(c, DefaultConstructed)

Sampled(op, arg, r) == ops < MaxSamples /\ Drew(1, op, arg, r.st, r.ret, 0) /\ UNCHANGED outs

Bits == Sampled("bits", <<>>, Random_bits(eng[1]))
BitsB(b) ==
    IF b = 0
    THEN \E v \in Random_bits_0(eng[1]) :
            Sampled("bits_b", b, [st |-> Random_bits(eng[1]).st, ret |-> v])
    ELSE Sampled("bits_b", b, Random_bits_b(eng[1], b))
U64 == Sampled("u64", <<>>, Random_u64(eng[1]))
U64Limited(max_value) ==
    /\ ops < MaxSamples
    /\ LET r == Random_u64_limited(eng[1], max_value)
       IN Drew(1, "u64_limited", max_value, r.st, r.ret, r.rejected)
    /\ UNCHANGED outs
U32 == Sampled("u32", <<>>, Random_u32(eng[1]))
U32Pair == Sampled("u32_pair", <<>>, Random_u32_pair(eng[1]))
F52 == Sampled("f52", <<>>, Random_f52(eng[1]))
F53 == Sampled("f53", <<>>, Random_f53(eng[1]))

NextRandom ==
    \/ Bits
    \/ \E b \in BitWidths : BitsB(b)
    \/ U64
    \/ \E max_value \in LimMax64 : U64Limited(max_value)
    \/ U32
    \/ U32Pair
    \/ F52
    \/ F53

SpecRandom == InitRandom /\ [][NextRandom]_vars

\* ------------------------------------------------------------ SpecLimited
\* random_u64_limited(max_value, get) with get() any source of words: every word of
\* LimBits bits, or a word of Raw64 for the 64-bit function itself.
InitLimited ==
    /\ Built(DefaultConstructed, DefaultConstructed)
    /\ \E w \in {LimBits, WordBits} :
          \E max_value \in (IF w = WordBits THEN LimMax64 ELSE AllWords(w)) :
              lim = [w |-> w, max |-> max_value, pc |-> "entry", t |-> <<>>, ret |-> <<>>,
                     rejected |-> 0]

\* x = get() at entry, the test l < max_value and, when it holds, t and the first l < t.
LimFirst(x) ==
    /\ lim.pc = "entry"
    /\ IF LimRejectFirst(x, lim.max, lim.w)
       THEN lim' = [lim EXCEPT !.pc = "loop", !.t = LimThreshold(lim.max, lim.w),
                               !.rejected = 1]
       ELSE lim' = [lim EXCEPT !.pc = "done", !.ret = LimResult(x, lim.max, lim.w)]
    /\ UNCHANGED <<eng, base, src, adv, disc, outs, last, ops>>

\* x = get() in the loop and the test l < t.
LimRetry(x) ==
    /\ lim.pc = "loop"
    /\ IF LimRejectAgain(x, lim.max, lim.t, lim.w)
       THEN lim.rejected < MaxRejects /\ lim' = [lim EXCEPT !.rejected = @ + 1]
       ELSE lim' = [lim EXCEPT !.pc = "done", !.ret = LimResult(x, lim.max, lim.w)]
    /\ UNCHANGED <<eng, base, src, adv, disc, outs, last, ops>>

NextLimited ==
    \/ \E x \in RawWords(lim.w) : LimFirst(x)
    \/ \E x \in RawWords(lim.w) : LimRetry(x)

SpecLimited == InitLimited /\ [][NextLimited]_vars
\* ------------------------------------------------------------ helpers of the claims
\* The state n calls of next() after st.
RECURSIVE NextN(_, _)
NextN(st, k) == IF k = 0 THEN st ELSE NextN(NextState(st), k - 1)

\* The word the (k + 1)-th call of next() after st returns.
WordAfter(st, k) == NextResult(NextN(st, k))

AllZero(st) == \A i \in 1..4 : IsZero(st[i])

\* A word of at most 24 bits as a number.
ToNat(x) == LimbAt(x, 1) + 256 * LimbAt(x, 2) + 65536 * LimbAt(x, 3)

OneDrawOps == {"bits", "bits_b", "u64", "u32", "u32_pair", "f52", "f53"}

\* ------------------------------------------------------------ claims

\* C1: for every max_value > 0 and whatever words the source supplies, the value
\* random_u64_limited returns is below max_value; for max_value = 1 it is 0.
C1_BelowBound ==
    (lim.pc = "done" /\ ~IsZero(lim.max)) =>
        /\ Less(lim.ret, lim.max)
        /\ (lim.max = FromNat(1, lim.w) => IsZero(lim.ret))

C1_Witness ==
    /\ lim.pc = "done" /\ lim.w = WordBits /\ lim.rejected >= 1
    /\ lim.max = U64C(<<\H8000, 0, 0, 1>>)
    /\ ~IsZero(lim.ret)

\* C2: counted over all 2^w words, every result below max_value is produced by exactly
\* floor(2^w / max_value) accepted words and exactly 2^w mod max_value words are
\* rejected, at the first draw and at every later draw alike.
C2_Unbiased ==
    (lim.w = LimBits /\ ~IsZero(lim.max)) =>
        LET all == AllWords(lim.w)
            t == LimThreshold(lim.max, lim.w)
            rejFirst == { x \in all : LimRejectFirst(x, lim.max, lim.w) }
            rejAgain == { x \in all : LimRejectAgain(x, lim.max, t, lim.w) }
            share == (2^lim.w) \div ToNat(lim.max)
        IN /\ Cardinality(rejFirst) = (2^lim.w) % ToNat(lim.max)
           /\ rejAgain = rejFirst
           /\ \A r \in all :
                 Cardinality({ x \in all \ rejFirst : LimResult(x, lim.max, lim.w) = r })
                     = IF Less(r, lim.max) THEN share ELSE 0

C2_Witness ==
    /\ lim.w = LimBits /\ lim.pc = "done" /\ lim.rejected >= 1
    /\ lim.max = FromNat(3, LimBits)
    /\ lim.ret = FromNat(2, LimBits)

\* C3: once seeded (any seed value, 0 included; any seed sequence, the empty one
\* included) the state is never all zero, nor after any calls of next() and discard(n).
C3_NeverAllZero == \A e \in Engines : ~AllZero(eng[e])

C3_Witness ==
    /\ src[1] = [kind |-> "seq", arg |-> <<>>]
    /\ src[2] = [kind |-> "value", arg |-> FromNat(0, WordBits)]
    /\ last[1].op = "call" /\ disc[1] >= 1
    /\ last[2].op = "discard" /\ disc[2] = MaxDiscard

\* C4: seeding with a permutation of a seed sequence of distinct elements, such as
\* [3,2,1] for [1,2,3], gives a different state.
C4_OrderSensitive ==
    \A e \in Engines, f \in Engines :
        ( /\ src[e].kind = "seq" /\ src[f].kind = "seq"
          /\ Len(src[e].arg) = Len(src[f].arg)
          /\ src[e].arg # src[f].arg
          /\ { src[e].arg[i] : i \in 1..Len(src[e].arg) }
                = { src[f].arg[i] : i \in 1..Len(src[f].arg) }
          /\ Cardinality({ src[e].arg[i] : i \in 1..Len(src[e].arg) }) = Len(src[e].arg) )
        => base[e] # base[f]

\* C5: discard(n) is n calls of next(), n = 0 included: an engine is always in the
\* state adv calls of next() after its base, and a call of operator() that follows
\* returns the word the last of that many calls of next() returns.
C5_DiscardIsNext ==
    \A e \in Engines :
        /\ eng[e] = NextN(base[e], adv[e])
        /\ (last[e].op = "call" /\ adv[e] >= 1)
              => last[e].ret = WordAfter(base[e], adv[e] - 1)
        /\ last[e].op = "discard" => eng[e] = NextN(last[e].pre, last[e].arg)

C5_Witness ==
    \E e \in Engines :
        /\ last[e].op = "call" /\ disc[e] = 2 /\ adv[e] = 3
        /\ eng[e] # base[e]

\* C6: engines whose states are bit-identical (built from the same seed value, or
\* joined by set_state(state())) compare equal under operator==, have returned the
\* same words after equally many calls, and still compare equal.
C6_Deterministic ==
    \A e \in Engines, f \in Engines :
        /\ (src[e] = src[f] /\ src[e].kind = "value") => base[e] = base[f]
        /\ base[e] = base[f] =>
              /\ adv[e] = adv[f] => (Equals(eng[e], eng[f]) /\ ~NotEquals(eng[e], eng[f]))
              /\ (disc[e] = 0 /\ disc[f] = 0 /\ Len(outs[e]) <= Len(outs[f]))
                    => outs[e] = SubSeq(outs[f], 1, Len(outs[e]))

C6_Witness ==
    /\ src[1].kind = "state" /\ src[2].kind = "state"
    /\ last[1].op = "call" /\ last[2].op = "call"
    /\ Len(outs[1]) = 1 /\ outs[2] = outs[1]
    /\ eng[1] # base[1] /\ Equals(eng[1], eng[2])

\* C7: u64(max_value) with max_value = 0 ends in an InvalidArgument failure and does
\* not return a value.
C7_ZeroBoundFails ==
    \A e \in Engines :
        (last[e].op = "u64_limited" /\ IsZero(last[e].arg))
            => last[e].outcome = "InvalidArgument"

\* C8: bits(), bits(b), u64(), u32(), u32_pair(), f52() and f53() leave the engine one
\* next() further; u64(max_value) leaves it 1 + k calls further, k the words rejected
\* (each of the first k words is below the threshold, the word after them gives the
\* result), and k = 0 when the low half of the first product is >= max_value.  The
\* other engine is not touched.
C8_DrawsCounted ==
    /\ last[1].op \in OneDrawOps => eng[1] = NextN(last[1].pre, 1)
    /\ last[1].op = "u64_limited" =>
          LET k == last[1].rejected
              max_value == last[1].arg
              pre == last[1].pre
          IN /\ eng[1] = NextN(pre, 1 + k)
             /\ \A i \in 0..(k - 1) :
                   Less(LimLow(LimProduct(WordAfter(pre, i), max_value, WordBits), WordBits),
                        LimThreshold(max_value, WordBits))
             /\ last[1].ret =
                   Cast(Shr(LimProduct(WordAfter(pre, k), max_value, WordBits), WordBits),
                        WordBits)
             /\ ~Less(LimLow(LimProduct(WordAfter(pre, 0), max_value, WordBits), WordBits),
                      max_value) => k = 0
    /\ eng[1] = NextN(base[1], adv[1])
    /\ eng[2] = base[2] /\ last[2] = NoCall

C8_Witness ==
    /\ last[1].op = "u64_limited" /\ last[1].rejected >= 2
    /\ adv[1] > ops

\* C9: for 0 <= b <= 64, bits(b) returns the top b bits of one fresh word, that is
\* floor(raw / 2^(64 - b)): bits(64) is the word and bits(0) is 0.
C9_TopBits ==
    last[1].op = "bits_b" =>
        last[1].ret = IF last[1].arg = 0 THEN FromNat(0, WordBits)
                      ELSE Shr(WordAfter(last[1].pre, 0), 64 - last[1].arg)

\* C10: seed(v) leaves the state a freshly constructed engine seeded with v has,
\* whatever the state before, and seeding with the one-element sequence [v] leaves
\* the state seed(v) leaves.
SameSeed(a, b) ==
    \/ a = b
    \/ a.kind = "value" /\ b.kind = "seq" /\ b.arg = << a.arg >>
    \/ a.kind = "seq" /\ b.kind = "value" /\ a.arg = << b.arg >>

C10_SeedForgetsState ==
    /\ \A e \in Engines : \E c \in Constructed : c.src = src[e] /\ c.st = base[e]
    /\ \A e \in Engines, f \in Engines : SameSeed(src[e], src[f]) => base[e] = base[f]

C10_Witness ==
    \E e \in Engines, f \in Engines :
        /\ last[e].op = "seed" /\ last[f].op = "seed"
        /\ src[e] = [kind |-> "value", arg |-> FromNat(0, WordBits)]
        /\ src[f] = [kind |-> "seq", arg |-> << FromNat(0, WordBits) >>]
        /\ last[e].pre = DefaultConstructed.st
====
